---- MODULE Spec2Model ----
(***************************************************************************)
(* Model of hands-on-data-struct-algorithms/src/lists.rs: the singly       *)
(* linked TransactionLog, the doubly linked BetterTransactionLog and the   *)
(* ListIteratorTracker cursor, over a heap of reference-counted nodes      *)
(* (Rc<RefCell<Node>>).  Every Rc clone and every Rc drop of the source is *)
(* an explicit update of the node's strong count.                          *)
(***************************************************************************)
EXTENDS Integers, Sequences, FiniteSets, TLC

\* ---- bounds ----
\* number of heap slots: at most MaxNodes nodes are alive at any time
MaxNodes == 3
\* a cursor is stepped at most MaxOut times with a value yielded
MaxOut == 4

\* the strings that are appended
Values == {"a", "b"}

\* Link = Option<Rc<RefCell<Node>>>: NULL is None, a node id is Some(rc)
NULL == 0
NodeIds == 1..MaxNodes

VARIABLES
    nodes,      \* the heap: node id -> [value, next, prev, strong]
    btl,        \* the BetterTransactionLog: [head, tail, length]
    tl,         \* the TransactionLog: [head, tail, length]
    cursor,     \* the ListIteratorTracker: [live, current]
    pending,    \* per log, the values appended and not yet popped, oldest first
    iter,       \* what the live cursor was started from and has yielded
    op,         \* the operation that ran last
    ret,        \* what it returned: [kind, value]
    strong,     \* Rc::strong_count of the detached head when pop reached try_unwrap
    teardown,   \* what the last drop of a TransactionLog did: [pops, somes, freed, deepest]
    copy        \* the clone of the BetterTransactionLog: [live, head, tail, length]

vars == <<nodes, btl, tl, cursor, pending, iter, op, ret, strong, teardown, copy>>

\* ---- return values ----
RetUnit == [kind |-> "Unit", value |-> ""]
RetNone == [kind |-> "None", value |-> ""]
RetPanic == [kind |-> "Panic", value |-> ""]
RetSome(v) == [kind |-> "Some", value |-> v]
RetBool(b) == [kind |-> "Bool", value |-> b]
RetOverflow == [kind |-> "Overflow", value |-> ""]

\* ---- the heap ----
\* a slot that holds no node (strong count 0: the allocation was released)
FreeNode == [value |-> "", next |-> NULL, prev |-> NULL, strong |-> 0]

IsFree(h, n) == h[n].strong = 0

HasFree(h) == \E n \in NodeIds : IsFree(h, n)

\* the slot the allocator hands out
FreshId(h) == CHOOSE n \in NodeIds : IsFree(h, n) /\ \A m \in NodeIds : IsFree(h, m) => n <= m

\* Node::new(value): one owner (the local `node`), both links None
NodeNew(h, value) == [h EXCEPT ![FreshId(h)] = [value |-> value, next |-> NULL, prev |-> NULL, strong |-> 1]]

\* Rc::clone of a Link: one more owner of the node it refers to
RcClone(h, n) == IF n = NULL THEN h ELSE [h EXCEPT ![n].strong = @ + 1]

\* drop of a Link: one owner less; the last owner releases the node, which
\* drops the node's fields in declaration order (value, next, prev)
RECURSIVE RcDrop(_, _)
RcDrop(h, n) ==
    IF n = NULL THEN h
    ELSE IF h[n].strong > 1 THEN [h EXCEPT ![n].strong = @ - 1]
    ELSE LET nx == h[n].next
             pv == h[n].prev
             h1 == [h EXCEPT ![n] = FreeNode]
         IN RcDrop(RcDrop(h1, nx), pv)

\* new_empty() of both logs
NewEmpty == [head |-> NULL, tail |-> NULL, length |-> 0]

IsEmptyLog(l) == l.head = NULL /\ l.tail = NULL

\* a panic or an exhausted call stack ends the program: nothing runs after it
Halted == ret.kind \in {"Panic", "Overflow"}

\* ---- BetterTransactionLog ----
\* variant of append that leaves out `self.length += 1`
BetterAppendStepNoCount(h, l, value) ==
    LET node == FreshId(h)
        h1 == NodeNew(h, value)
        tail == l.tail                                  \* self.tail.take()
        h2 == IF tail = NULL
              THEN RcClone(h1, node)                    \* self.head = Some(node.clone())
              ELSE LET old == h1[tail].next
                       a == RcClone([h1 EXCEPT ![tail].next = node], node)
                       b == RcDrop(a, old)              \* the link that was overwritten
                   IN [b EXCEPT ![node].prev = tail]    \* node.prev = Some(tail), moved
        l1 == IF tail = NULL THEN [l EXCEPT !.head = node] ELSE l
    IN [nodes |-> h2,
        log |-> [l1 EXCEPT !.tail = node, !.length = l.length]]


\* variant of append that leaves out `tail.borrow_mut().next = Some(node.clone())`
BetterAppendStepNoNext(h, l, value) ==
    LET node == FreshId(h)
        h1 == NodeNew(h, value)
        tail == l.tail                                  \* self.tail.take()
        h2 == IF tail = NULL
              THEN RcClone(h1, node)                    \* self.head = Some(node.clone())
              ELSE [h1 EXCEPT ![node].prev = tail]
        l1 == IF tail = NULL THEN [l EXCEPT !.head = node] ELSE l
    IN [nodes |-> h2,
        log |-> [l1 EXCEPT !.tail = node, !.length = l.length + 1]]


\* variant of append that leaves out `node.borrow_mut().prev = Some(tail)`
BetterAppendStepNoPrev(h, l, value) ==
    LET node == FreshId(h)
        h1 == NodeNew(h, value)
        tail == l.tail                                  \* self.tail.take()
        h2 == IF tail = NULL
              THEN RcClone(h1, node)                    \* self.head = Some(node.clone())
              ELSE LET old == h1[tail].next
                       a == RcClone([h1 EXCEPT ![tail].next = node], node)
                       b == RcDrop(a, old)              \* the link that was overwritten
                   IN RcDrop(b, tail)                   \* `tail` goes out of scope
        l1 == IF tail = NULL THEN [l EXCEPT !.head = node] ELSE l
    IN [nodes |-> h2,
        log |-> [l1 EXCEPT !.tail = node, !.length = l.length + 1]]


\* variant of append that runs `self.head = Some(node.clone())` in both arms
BetterAppendStepHeadMoves(h, l, value) ==
    LET node == FreshId(h)
        h1 == NodeNew(h, value)
        tail == l.tail                                  \* self.tail.take()
        h2 == IF tail = NULL
              THEN RcClone(h1, node)                    \* self.head = Some(node.clone())
              ELSE LET old == h1[tail].next
                       a == RcClone([h1 EXCEPT ![tail].next = node], node)
                       b == RcDrop(a, old)              \* the link that was overwritten
                       c == [b EXCEPT ![node].prev = tail]
                   IN RcDrop(RcClone(c, node), l.head)
        l1 == [l EXCEPT !.head = node]
    IN [nodes |-> h2,
        log |-> [l1 EXCEPT !.tail = node, !.length = l.length + 1]]


\* append(&mut self, value); h has a free slot
BetterAppendStep(h, l, value) ==
    LET node == FreshId(h)
        h1 == NodeNew(h, value)
        tail == l.tail                                  \* self.tail.take()
        h2 == IF tail = NULL
              THEN RcClone(h1, node)                    \* self.head = Some(node.clone())
              ELSE LET old == h1[tail].next
                       a == RcClone([h1 EXCEPT ![tail].next = node], node)
                       b == RcDrop(a, old)              \* the link that was overwritten
                   IN [b EXCEPT ![node].prev = tail]    \* node.prev = Some(tail), moved
        l1 == IF tail = NULL THEN [l EXCEPT !.head = node] ELSE l
    IN [nodes |-> h2,
        log |-> [l1 EXCEPT !.tail = node, !.length = l.length + 1]]

\* variant of pop that leaves out `next.borrow_mut().prev.take()`
BetterPopStepNoClear(h, l) ==
    LET head == l.head IN
    IF head = NULL
    THEN [nodes |-> h, log |-> l, ret |-> RetNone, strong |-> 0]
    ELSE
    LET l1 == [l EXCEPT !.head = NULL]                  \* self.head.take()
        next == h[head].next
        h1 == [h EXCEPT ![head].next = NULL]            \* head.next.take()
        h2 == IF next # NULL
              THEN h1
              ELSE RcDrop(h1, l1.tail)                  \* self.tail.take(), dropped
        l2 == IF next # NULL
              THEN [l1 EXCEPT !.head = next]            \* self.head = Some(next)
              ELSE [l1 EXCEPT !.tail = NULL]
    IN IF l2.length = 0
       THEN \* self.length -= 1 on 0: "attempt to subtract with overflow"
            [nodes |-> h2, log |-> l2, ret |-> RetPanic, strong |-> 0]
       ELSE
       LET l3 == [l2 EXCEPT !.length = @ - 1]
           cnt == h2[head].strong                       \* Rc::strong_count(&head)
       IN IF cnt = 1
          THEN \* try_unwrap succeeds: the node is consumed, its value moved out
               [nodes |-> RcDrop(h2, head), log |-> l3,
                ret |-> RetSome(h2[head].value), strong |-> cnt]
          ELSE \* .expect("It should just work") panics
               [nodes |-> h2, log |-> l3, ret |-> RetPanic, strong |-> cnt]


\* variant of pop that runs `self.length -= 1` before looking at the head
BetterPopStepUnguarded(h, l) ==
    LET head == l.head IN
    IF head = NULL
    THEN IF l.length = 0
         THEN [nodes |-> h, log |-> l, ret |-> RetPanic, strong |-> 0]
         ELSE [nodes |-> h, log |-> [l EXCEPT !.length = @ - 1], ret |-> RetNone, strong |-> 0]
    ELSE
    LET l1 == [l EXCEPT !.head = NULL]                  \* self.head.take()
        next == h[head].next
        h1 == [h EXCEPT ![head].next = NULL]            \* head.next.take()
        h2 == IF next # NULL
              THEN LET pv == h1[next].prev              \* next.prev.take(), dropped
                   IN RcDrop([h1 EXCEPT ![next].prev = NULL], pv)
              ELSE RcDrop(h1, l1.tail)                  \* self.tail.take(), dropped
        l2 == IF next # NULL
              THEN [l1 EXCEPT !.head = next]            \* self.head = Some(next)
              ELSE [l1 EXCEPT !.tail = NULL]
    IN IF l2.length = 0
       THEN \* self.length -= 1 on 0: "attempt to subtract with overflow"
            [nodes |-> h2, log |-> l2, ret |-> RetPanic, strong |-> 0]
       ELSE
       LET l3 == [l2 EXCEPT !.length = @ - 1]
           cnt == h2[head].strong                       \* Rc::strong_count(&head)
       IN IF cnt = 1
          THEN \* try_unwrap succeeds: the node is consumed, its value moved out
               [nodes |-> RcDrop(h2, head), log |-> l3,
                ret |-> RetSome(h2[head].value), strong |-> cnt]
          ELSE \* .expect("It should just work") panics
               [nodes |-> h2, log |-> l3, ret |-> RetPanic, strong |-> cnt]


\* variant of pop that runs `next.borrow_mut().next.take()` in place of prev.take()
BetterPopStepClearsNext(h, l) ==
    LET head == l.head IN
    IF head = NULL
    THEN [nodes |-> h, log |-> l, ret |-> RetNone, strong |-> 0]
    ELSE
    LET l1 == [l EXCEPT !.head = NULL]                  \* self.head.take()
        next == h[head].next
        h1 == [h EXCEPT ![head].next = NULL]            \* head.next.take()
        h2 == IF next # NULL
              THEN LET nn == h1[next].next
                   IN RcDrop([h1 EXCEPT ![next].next = NULL], nn)
              ELSE RcDrop(h1, l1.tail)                  \* self.tail.take(), dropped
        l2 == IF next # NULL
              THEN [l1 EXCEPT !.head = next]            \* self.head = Some(next)
              ELSE [l1 EXCEPT !.tail = NULL]
    IN IF l2.length = 0
       THEN \* self.length -= 1 on 0: "attempt to subtract with overflow"
            [nodes |-> h2, log |-> l2, ret |-> RetPanic, strong |-> 0]
       ELSE
       LET l3 == [l2 EXCEPT !.length = @ - 1]
           cnt == h2[head].strong                       \* Rc::strong_count(&head)
       IN IF cnt = 1
          THEN \* try_unwrap succeeds: the node is consumed, its value moved out
               [nodes |-> RcDrop(h2, head), log |-> l3,
                ret |-> RetSome(h2[head].value), strong |-> cnt]
          ELSE \* .expect("It should just work") panics
               [nodes |-> h2, log |-> l3, ret |-> RetPanic, strong |-> cnt]


\* variant of pop that ends in `Rc::try_unwrap(head).ok().map(..)`: no panic
BetterPopStepSwallow(h, l) ==
    LET head == l.head IN
    IF head = NULL
    THEN [nodes |-> h, log |-> l, ret |-> RetNone, strong |-> 0]
    ELSE
    LET l1 == [l EXCEPT !.head = NULL]                  \* self.head.take()
        next == h[head].next
        h1 == [h EXCEPT ![head].next = NULL]            \* head.next.take()
        h2 == IF next # NULL
              THEN LET pv == h1[next].prev              \* next.prev.take(), dropped
                   IN RcDrop([h1 EXCEPT ![next].prev = NULL], pv)
              ELSE RcDrop(h1, l1.tail)                  \* self.tail.take(), dropped
        l2 == IF next # NULL
              THEN [l1 EXCEPT !.head = next]            \* self.head = Some(next)
              ELSE [l1 EXCEPT !.tail = NULL]
    IN IF l2.length = 0
       THEN \* self.length -= 1 on 0: "attempt to subtract with overflow"
            [nodes |-> h2, log |-> l2, ret |-> RetPanic, strong |-> 0]
       ELSE
       LET l3 == [l2 EXCEPT !.length = @ - 1]
           cnt == h2[head].strong                       \* Rc::strong_count(&head)
       IN IF cnt = 1
          THEN \* try_unwrap succeeds: the node is consumed, its value moved out
               [nodes |-> RcDrop(h2, head), log |-> l3,
                ret |-> RetSome(h2[head].value), strong |-> cnt]
          ELSE \* .expect("It should just work") panics
               [nodes |-> RcDrop(h2, head), log |-> l3, ret |-> RetNone, strong |-> cnt]


\* variant of pop that runs `self.tail.take()` whether or not head has a successor
BetterPopStepDropsTail(h, l) ==
    LET head == l.head IN
    IF head = NULL
    THEN [nodes |-> h, log |-> l, ret |-> RetNone, strong |-> 0]
    ELSE
    LET l1 == [l EXCEPT !.head = NULL]                  \* self.head.take()
        next == h[head].next
        h1 == [h EXCEPT ![head].next = NULL]            \* head.next.take()
        h2 == IF next # NULL
              THEN LET pv == h1[next].prev              \* next.prev.take(), dropped
                   IN RcDrop(RcDrop([h1 EXCEPT ![next].prev = NULL], pv), l1.tail)
              ELSE RcDrop(h1, l1.tail)                  \* self.tail.take(), dropped
        l2 == IF next # NULL
              THEN [l1 EXCEPT !.head = next, !.tail = NULL]
              ELSE [l1 EXCEPT !.tail = NULL]
    IN IF l2.length = 0
       THEN \* self.length -= 1 on 0: "attempt to subtract with overflow"
            [nodes |-> h2, log |-> l2, ret |-> RetPanic, strong |-> 0]
       ELSE
       LET l3 == [l2 EXCEPT !.length = @ - 1]
           cnt == h2[head].strong                       \* Rc::strong_count(&head)
       IN IF cnt = 1
          THEN \* try_unwrap succeeds: the node is consumed, its value moved out
               [nodes |-> RcDrop(h2, head), log |-> l3,
                ret |-> RetSome(h2[head].value), strong |-> cnt]
          ELSE \* .expect("It should just work") panics
               [nodes |-> h2, log |-> l3, ret |-> RetPanic, strong |-> cnt]


\* pop(&mut self) -> Option<String>
BetterPopStep(h, l) ==
    LET head == l.head IN
    IF head = NULL
    THEN [nodes |-> h, log |-> l, ret |-> RetNone, strong |-> 0]
    ELSE
    LET l1 == [l EXCEPT !.head = NULL]                  \* self.head.take()
        next == h[head].next
        h1 == [h EXCEPT ![head].next = NULL]            \* head.next.take()
        h2 == IF next # NULL
              THEN LET pv == h1[next].prev              \* next.prev.take(), dropped
                   IN RcDrop([h1 EXCEPT ![next].prev = NULL], pv)
              ELSE RcDrop(h1, l1.tail)                  \* self.tail.take(), dropped
        l2 == IF next # NULL
              THEN [l1 EXCEPT !.head = next]            \* self.head = Some(next)
              ELSE [l1 EXCEPT !.tail = NULL]
    IN IF l2.length = 0
       THEN \* self.length -= 1 on 0: "attempt to subtract with overflow"
            [nodes |-> h2, log |-> l2, ret |-> RetPanic, strong |-> 0]
       ELSE
       LET l3 == [l2 EXCEPT !.length = @ - 1]
           cnt == h2[head].strong                       \* Rc::strong_count(&head)
       IN IF cnt = 1
          THEN \* try_unwrap succeeds: the node is consumed, its value moved out
               [nodes |-> RcDrop(h2, head), log |-> l3,
                ret |-> RetSome(h2[head].value), strong |-> cnt]
          ELSE \* .expect("It should just work") panics
               [nodes |-> h2, log |-> l3, ret |-> RetPanic, strong |-> cnt]

\* ---- TransactionLog ----
\* append(&mut self, value); h has a free slot
AppendStep(h, l, value) ==
    LET node == FreshId(h)
        h1 == NodeNew(h, value)
        tail == l.tail                                  \* self.tail.take()
        h2 == IF tail = NULL
              THEN RcClone(h1, node)                    \* self.head = Some(node.clone())
              ELSE LET old == h1[tail].next
                       a == RcClone([h1 EXCEPT ![tail].next = node], node)
                       b == RcDrop(a, old)              \* the link that was overwritten
                   IN RcDrop(b, tail)                   \* `tail` goes out of scope
        l1 == IF tail = NULL THEN [l EXCEPT !.head = node] ELSE l
    IN [nodes |-> h2,
        log |-> [l1 EXCEPT !.tail = node, !.length = l.length + 1]]

\* variant of pop that leaves out `self.head = Some(next)`
PopStepLoseHead(h, l) ==
    LET head == l.head IN
    IF head = NULL
    THEN [nodes |-> h, log |-> l, ret |-> RetNone, strong |-> 0]
    ELSE
    LET l1 == [l EXCEPT !.head = NULL]                  \* self.head.take()
        next == h[head].next
        h1 == [h EXCEPT ![head].next = NULL]            \* head.next.take()
        h2 == IF next # NULL
              THEN RcDrop(h1, next)                     \* `next` goes out of scope
              ELSE RcDrop(h1, l1.tail)                  \* self.tail.take(), dropped
        l2 == IF next # NULL
              THEN l1
              ELSE [l1 EXCEPT !.tail = NULL]
    IN IF l2.length = 0
       THEN \* self.length -= 1 on 0: "attempt to subtract with overflow"
            [nodes |-> h2, log |-> l2, ret |-> RetPanic, strong |-> 0]
       ELSE
       LET l3 == [l2 EXCEPT !.length = @ - 1]
           cnt == h2[head].strong
       IN IF cnt = 1
          THEN \* try_unwrap succeeds: the node is consumed, its value moved out
               [nodes |-> RcDrop(h2, head), log |-> l3,
                ret |-> RetSome(h2[head].value), strong |-> cnt]
          ELSE \* .expect("It should just work") panics
               [nodes |-> h2, log |-> l3, ret |-> RetPanic, strong |-> cnt]


\* pop(&mut self) -> Option<String>
PopStep(h, l) ==
    LET head == l.head IN
    IF head = NULL
    THEN [nodes |-> h, log |-> l, ret |-> RetNone, strong |-> 0]
    ELSE
    LET l1 == [l EXCEPT !.head = NULL]                  \* self.head.take()
        next == h[head].next
        h1 == [h EXCEPT ![head].next = NULL]            \* head.next.take()
        h2 == IF next # NULL
              THEN h1                                   \* moved into self.head
              ELSE RcDrop(h1, l1.tail)                  \* self.tail.take(), dropped
        l2 == IF next # NULL
              THEN [l1 EXCEPT !.head = next]            \* self.head = Some(next)
              ELSE [l1 EXCEPT !.tail = NULL]
    IN IF l2.length = 0
       THEN \* self.length -= 1 on 0: "attempt to subtract with overflow"
            [nodes |-> h2, log |-> l2, ret |-> RetPanic, strong |-> 0]
       ELSE
       LET l3 == [l2 EXCEPT !.length = @ - 1]
           cnt == h2[head].strong
       IN IF cnt = 1
          THEN \* try_unwrap succeeds: the node is consumed, its value moved out
               [nodes |-> RcDrop(h2, head), log |-> l3,
                ret |-> RetSome(h2[head].value), strong |-> cnt]
          ELSE \* .expect("It should just work") panics
               [nodes |-> h2, log |-> l3, ret |-> RetPanic, strong |-> cnt]

\* ---- the state after construction ----
NoCursor == [live |-> FALSE, current |-> NULL]
NoIter == [log |-> "", from |-> "", out |-> <<>>, fwd |-> FALSE, back |-> FALSE, dirty |-> FALSE]
NoTeardown == [pops |-> 0, somes |-> 0, freed |-> 0, deepest |-> 0]
NoCopy == [live |-> FALSE, head |-> NULL, tail |-> NULL, length |-> 0]

Init ==
    /\ nodes = [n \in NodeIds |-> FreeNode]
    /\ btl = NewEmpty
    /\ tl = NewEmpty
    /\ cursor = NoCursor
    /\ pending = [btl |-> <<>>, tl |-> <<>>]
    /\ iter = NoIter
    /\ op = "new_empty"
    /\ ret = RetUnit
    /\ strong = 0
    /\ teardown = NoTeardown
    /\ copy = NoCopy

\* the log a live cursor was started from has been changed under it
Touch(which) == IF cursor.live /\ iter.log = which THEN [iter EXCEPT !.dirty = TRUE] ELSE iter

\* ---- actions: one per operation ----
BetterAppend(v) ==
    /\ ~Halted
    /\ HasFree(nodes)
    /\ LET r == BetterAppendStep(nodes, btl, v)
       IN /\ nodes' = r.nodes
          /\ btl' = r.log
    /\ pending' = [pending EXCEPT !.btl = Append(@, v)]
    /\ iter' = Touch("btl")
    /\ op' = "BetterAppend"
    /\ ret' = RetUnit
    /\ strong' = 0
    /\ UNCHANGED <<tl, cursor, teardown, copy>>

BetterPop ==
    /\ ~Halted
    /\ LET r == BetterPopStep(nodes, btl)
       IN /\ nodes' = r.nodes
          /\ btl' = r.log
          /\ ret' = r.ret
          /\ strong' = r.strong
    /\ pending' = [pending EXCEPT !.btl = IF @ = <<>> THEN @ ELSE Tail(@)]
    /\ iter' = Touch("btl")
    /\ op' = "BetterPop"
    /\ UNCHANGED <<tl, cursor, teardown, copy>>

TlAppend(v) ==
    /\ ~Halted
    /\ HasFree(nodes)
    /\ LET r == AppendStep(nodes, tl, v)
       IN /\ nodes' = r.nodes
          /\ tl' = r.log
    /\ pending' = [pending EXCEPT !.tl = Append(@, v)]
    /\ iter' = Touch("tl")
    /\ op' = "Append"
    /\ ret' = RetUnit
    /\ strong' = 0
    /\ UNCHANGED <<btl, cursor, teardown, copy>>

TlPop ==
    /\ ~Halted
    /\ LET r == PopStep(nodes, tl)
       IN /\ nodes' = r.nodes
          /\ tl' = r.log
          /\ ret' = r.ret
          /\ strong' = r.strong
    /\ pending' = [pending EXCEPT !.tl = IF @ = <<>> THEN @ ELSE Tail(@)]
    /\ iter' = Touch("tl")
    /\ op' = "Pop"
    /\ UNCHANGED <<btl, cursor, teardown, copy>>

\* ---- ListIteratorTracker ----
LogOf(which) == IF which = "btl" THEN btl ELSE tl

LinkOf(which, from) == IF from = "head" THEN LogOf(which).head ELSE LogOf(which).tail

\* ListIteratorTracker::new(log.head.clone()) or new(log.tail.clone())
CursorNewStep(h, start_at) == [nodes |-> RcClone(h, start_at), cursor |-> [live |-> TRUE, current |-> start_at]]

\* variant of next that follows `prev`
CursorNextStepPrev(h, c) ==
    LET current == c.current IN
    IF current = NULL
    THEN [nodes |-> h, cursor |-> c, ret |-> RetNone]
    ELSE LET nx == h[current].prev
             h1 == RcClone(h, nx)                       \* current.next.clone()
             h2 == RcDrop(h1, current)                  \* the old self.current is dropped
         IN [nodes |-> h2, cursor |-> [c EXCEPT !.current = nx],
             ret |-> RetSome(h[current].value)]         \* current.value.clone()


\* variant of next that takes the link out of the node instead of cloning it
CursorNextStepTake(h, c) ==
    LET current == c.current IN
    IF current = NULL
    THEN [nodes |-> h, cursor |-> c, ret |-> RetNone]
    ELSE LET nx == h[current].next
             h1 == [h EXCEPT ![current].next = NULL]
             h2 == RcDrop(h1, current)                  \* the old self.current is dropped
         IN [nodes |-> h2, cursor |-> [c EXCEPT !.current = nx],
             ret |-> RetSome(h[current].value)]         \* current.value.clone()


\* variant of next that starts again from the head of the log once current is None
CursorNextStepRestart(h, c) ==
    LET current == c.current IN
    IF current = NULL
    THEN [nodes |-> RcClone(h, btl.head), cursor |-> [c EXCEPT !.current = btl.head], ret |-> RetNone]
    ELSE LET nx == h[current].next
             h1 == RcClone(h, nx)
             h2 == RcDrop(h1, current)
         IN [nodes |-> h2, cursor |-> [c EXCEPT !.current = nx],
             ret |-> RetSome(h[current].value)]

\* Iterator::next(&mut self) -> Option<String>
CursorNextStep(h, c) ==
    LET current == c.current IN
    IF current = NULL
    THEN [nodes |-> h, cursor |-> c, ret |-> RetNone]
    ELSE LET nx == h[current].next
             h1 == RcClone(h, nx)                       \* current.next.clone()
             h2 == RcDrop(h1, current)                  \* the old self.current is dropped
         IN [nodes |-> h2, cursor |-> [c EXCEPT !.current = nx],
             ret |-> RetSome(h[current].value)]         \* current.value.clone()

\* DoubleEndedIterator::next_back(&mut self) -> Option<String>
CursorNextBackStep(h, c) ==
    LET current == c.current IN
    IF current = NULL
    THEN [nodes |-> h, cursor |-> c, ret |-> RetNone]
    ELSE LET pv == h[current].prev
             h1 == RcClone(h, pv)                       \* curr.prev.clone()
             h2 == RcDrop(h1, current)                  \* the old self.current is dropped
         IN [nodes |-> h2, cursor |-> [c EXCEPT !.current = pv],
             ret |-> RetSome(h[current].value)]         \* curr.value.clone()

\* the values a step adds to what the cursor has yielded
Yield(r) == IF r.kind = "Some" THEN Append(iter.out, r.value) ELSE iter.out

CursorNew(which, from) ==
    /\ ~Halted
    /\ ~cursor.live
    /\ LET r == CursorNewStep(nodes, LinkOf(which, from))
       IN /\ nodes' = r.nodes
          /\ cursor' = r.cursor
    /\ iter' = [log |-> which, from |-> from, out |-> <<>>, fwd |-> FALSE, back |-> FALSE, dirty |-> FALSE]
    /\ op' = "CursorNew"
    /\ ret' = RetUnit
    /\ strong' = 0
    /\ UNCHANGED <<btl, tl, pending, teardown, copy>>

CursorNext ==
    /\ ~Halted
    /\ cursor.live
    /\ (Len(iter.out) < MaxOut \/ cursor.current = NULL)
    /\ LET r == CursorNextStep(nodes, cursor)
       IN /\ nodes' = r.nodes
          /\ cursor' = r.cursor
          /\ ret' = r.ret
          /\ iter' = [iter EXCEPT !.out = Yield(r.ret), !.fwd = TRUE]
    /\ op' = "next"
    /\ strong' = 0
    /\ UNCHANGED <<btl, tl, pending, teardown, copy>>

CursorNextBack ==
    /\ ~Halted
    /\ cursor.live
    /\ (Len(iter.out) < MaxOut \/ cursor.current = NULL)
    /\ LET r == CursorNextBackStep(nodes, cursor)
       IN /\ nodes' = r.nodes
          /\ cursor' = r.cursor
          /\ ret' = r.ret
          /\ iter' = [iter EXCEPT !.out = Yield(r.ret), !.back = TRUE]
    /\ op' = "next_back"
    /\ strong' = 0
    /\ UNCHANGED <<btl, tl, pending, teardown, copy>>

\* the cursor goes out of scope: its current link is dropped
CursorDrop ==
    /\ ~Halted
    /\ cursor.live
    /\ nodes' = RcDrop(nodes, cursor.current)
    /\ cursor' = NoCursor
    /\ iter' = NoIter
    /\ op' = "CursorDrop"
    /\ ret' = RetUnit
    /\ strong' = 0
    /\ UNCHANGED <<btl, tl, pending, teardown, copy>>

\* ---- destruction ----
FreeCount(h) == Cardinality({n \in NodeIds : IsFree(h, n)})

Max(a, b) == IF a >= b THEN a ELSE b

\* `while self.pop().is_some() {}`: acc counts the pops, the pops that returned
\* a value, the nodes released, and the most nodes released by a single pop
RECURSIVE DropLoop(_, _, _)
DropLoop(h, l, acc) ==
    LET r == PopStep(h, l)
        gone == FreeCount(r.nodes) - FreeCount(h)
        acc1 == [pops |-> acc.pops + 1,
                 somes |-> acc.somes + (IF r.ret.kind = "Some" THEN 1 ELSE 0),
                 freed |-> acc.freed + gone,
                 deepest |-> Max(acc.deepest, gone)]
    IN IF r.ret.kind = "Some"
       THEN DropLoop(r.nodes, r.log, acc1)
       ELSE [nodes |-> r.nodes, log |-> r.log, ret |-> r.ret, strong |-> r.strong, teardown |-> acc1]

\* variant of the drop of a TransactionLog without the Drop impl: the fields
\* head and tail are dropped, each release cascading along `next`
TlDropStepDefault(h, l) ==
    LET h1 == RcDrop(h, l.head)
        h2 == RcDrop(h1, l.tail)
        gone1 == FreeCount(h1) - FreeCount(h)
        gone2 == FreeCount(h2) - FreeCount(h1)
    IN [nodes |-> h2, log |-> [l EXCEPT !.head = NULL, !.tail = NULL], ret |-> RetUnit, strong |-> 0,
        teardown |-> [pops |-> 0, somes |-> 0, freed |-> gone1 + gone2, deepest |-> Max(gone1, gone2)]]

\* Drop for TransactionLog: drop(&mut self), then the fields head and tail are dropped
TlDropStep(h, l) ==
    LET r == DropLoop(h, l, NoTeardown)
    IN IF r.ret.kind = "Panic"
       THEN r
       ELSE [nodes |-> RcDrop(RcDrop(r.nodes, r.log.head), r.log.tail),
             log |-> [r.log EXCEPT !.head = NULL, !.tail = NULL],
             ret |-> RetUnit, strong |-> 0, teardown |-> r.teardown]

\* a BetterTransactionLog goes out of scope: it has no Drop impl, so only its
\* fields head and tail are dropped
BetterDropStep(h, l) ==
    [nodes |-> RcDrop(RcDrop(h, l.head), l.tail), log |-> NewEmpty]

\* IntoIterator::into_iter(self): head is moved into the cursor, the rest of
\* the log (tail) is dropped
IntoIterStep(h, l) ==
    [nodes |-> RcDrop(h, l.tail), log |-> NewEmpty, cursor |-> [live |-> TRUE, current |-> l.head]]

\* the TransactionLog goes out of scope; an append after it is on a log
\* built again by new_empty()
TlDrop ==
    /\ ~Halted
    /\ LET r == TlDropStep(nodes, tl)
       IN /\ nodes' = r.nodes
          /\ tl' = r.log
          /\ ret' = r.ret
          /\ strong' = r.strong
          /\ teardown' = r.teardown
    /\ pending' = [pending EXCEPT !.tl = <<>>]
    /\ iter' = Touch("tl")
    /\ op' = "Drop"
    /\ UNCHANGED <<btl, cursor, copy>>

\* the BetterTransactionLog goes out of scope; an append after it is on a log
\* built again by new_empty()
BetterDrop ==
    /\ ~Halted
    /\ LET r == BetterDropStep(nodes, btl)
       IN /\ nodes' = r.nodes
          /\ btl' = r.log
    /\ pending' = [pending EXCEPT !.btl = <<>>]
    /\ iter' = Touch("btl")
    /\ op' = "BetterDrop"
    /\ ret' = RetUnit
    /\ strong' = 0
    /\ UNCHANGED <<tl, cursor, teardown, copy>>

\* `for x in tl.into_iter()`: the log is consumed into a cursor
BetterIntoIter ==
    /\ ~Halted
    /\ ~cursor.live
    /\ LET r == IntoIterStep(nodes, btl)
       IN /\ nodes' = r.nodes
          /\ btl' = r.log
          /\ cursor' = r.cursor
    /\ pending' = [pending EXCEPT !.btl = <<>>]
    /\ iter' = [log |-> "into_iter", from |-> "head", out |-> <<>>, fwd |-> FALSE, back |-> FALSE, dirty |-> FALSE]
    /\ op' = "into_iter"
    /\ ret' = RetUnit
    /\ strong' = 0
    /\ UNCHANGED <<tl, teardown, copy>>

\* ---- equality ----
\* == on two Links: the derived PartialEq of Option, Rc, RefCell and Node, which
\* compares value, then next, then prev, stopping at the first difference.
\* path holds the pairs of nodes whose comparison is still on the call stack:
\* meeting one of them again is a recursion that never returns.
RECURSIVE LinkEq(_, _, _, _)
LinkEq(h, a, b, path) ==
    IF a = NULL \/ b = NULL THEN (IF a = b THEN "true" ELSE "false")
    ELSE IF <<a, b>> \in path THEN "diverges"
    ELSE IF h[a].value # h[b].value THEN "false"
    ELSE LET deeper == path \cup {<<a, b>>}
             nx == LinkEq(h, h[a].next, h[b].next, deeper)
         IN IF nx # "true" THEN nx
            ELSE LinkEq(h, h[a].prev, h[b].prev, deeper)

\* what the program sees of a comparison: a bool, or the stack overflow of a
\* recursion that never returns
EqOutcome(r) == IF r = "diverges" THEN RetOverflow ELSE RetBool(r)

\* assert_eq!(x, y) on two links of the logs
Compare(w1, f1, w2, f2) ==
    /\ ~Halted
    /\ ret' = EqOutcome(LinkEq(nodes, LinkOf(w1, f1), LinkOf(w2, f2), {}))
    /\ op' = "eq"
    /\ strong' = 0
    /\ UNCHANGED <<nodes, btl, tl, cursor, pending, iter, teardown, copy>>

\* assert_eq!(log.head, Some(Node::new(v))): the node made for the comparison
\* is dropped after it
CompareFresh(w, f, v) ==
    /\ ~Halted
    /\ HasFree(nodes)
    /\ ret' = EqOutcome(LinkEq(NodeNew(nodes, v), LinkOf(w, f), FreshId(nodes), {}))
    /\ op' = "eq_fresh"
    /\ strong' = 0
    /\ UNCHANGED <<nodes, btl, tl, cursor, pending, iter, teardown, copy>>

\* ---- the derived Clone of BetterTransactionLog ----
LogPart(c) == [head |-> c.head, tail |-> c.tail, length |-> c.length]

\* clone(&self): head and tail are Rc clones of the same nodes, length is copied
CloneStep(h, l) ==
    [nodes |-> RcClone(RcClone(h, l.head), l.tail),
     copy |-> [live |-> TRUE, head |-> l.head, tail |-> l.tail, length |-> l.length]]

\* let log2 = log1.clone()
BetterClone ==
    /\ ~Halted
    /\ ~copy.live
    /\ LET r == CloneStep(nodes, btl)
       IN /\ nodes' = r.nodes
          /\ copy' = r.copy
    /\ op' = "clone"
    /\ ret' = RetUnit
    /\ strong' = 0
    /\ UNCHANGED <<btl, tl, cursor, pending, iter, teardown>>

\* log2.append(v)
CopyAppend(v) ==
    /\ ~Halted
    /\ copy.live
    /\ HasFree(nodes)
    /\ LET r == BetterAppendStep(nodes, LogPart(copy), v)
       IN /\ nodes' = r.nodes
          /\ copy' = [live |-> TRUE, head |-> r.log.head, tail |-> r.log.tail, length |-> r.log.length]
    /\ op' = "CopyAppend"
    /\ ret' = RetUnit
    /\ strong' = 0
    /\ UNCHANGED <<btl, tl, cursor, pending, iter, teardown>>

\* log2.pop()
CopyPop ==
    /\ ~Halted
    /\ copy.live
    /\ LET r == BetterPopStep(nodes, LogPart(copy))
       IN /\ nodes' = r.nodes
          /\ copy' = [live |-> TRUE, head |-> r.log.head, tail |-> r.log.tail, length |-> r.log.length]
          /\ ret' = r.ret
          /\ strong' = r.strong
    /\ op' = "CopyPop"
    /\ UNCHANGED <<btl, tl, cursor, pending, iter, teardown>>

\* log2 goes out of scope: its fields head and tail are dropped
CopyDrop ==
    /\ ~Halted
    /\ copy.live
    /\ nodes' = BetterDropStep(nodes, LogPart(copy)).nodes
    /\ copy' = NoCopy
    /\ op' = "CopyDrop"
    /\ ret' = RetUnit
    /\ strong' = 0
    /\ UNCHANGED <<btl, tl, cursor, pending, iter, teardown>>

\* ---- the logs used through append and pop alone ----
Next ==
    \/ \E v \in Values : BetterAppend(v)
    \/ BetterPop
    \/ \E v \in Values : TlAppend(v)
    \/ TlPop

Spec == Init /\ [][Next]_vars

\* ---- the doubly linked log with a cursor over it ----
NextIter ==
    \/ \E v \in Values : BetterAppend(v)
    \/ BetterPop
    \/ \E from \in {"head", "tail"} : CursorNew("btl", from)
    \/ CursorNext
    \/ CursorNextBack
    \/ CursorDrop

SpecIter == Init /\ [][NextIter]_vars

\* ---- the logs appended to, popped from and destroyed ----
NextDrop ==
    \/ \E v \in Values : BetterAppend(v)
    \/ BetterPop
    \/ \E v \in Values : TlAppend(v)
    \/ TlPop
    \/ TlDrop
    \/ BetterDrop
    \/ BetterIntoIter
    \/ CursorNext
    \/ CursorDrop

SpecDrop == Init /\ [][NextDrop]_vars

\* ---- the logs appended to, popped from and compared ----
NextEq ==
    \/ \E v \in Values : BetterAppend(v)
    \/ BetterPop
    \/ \E v \in Values : TlAppend(v)
    \/ TlPop
    \/ \E w1, w2 \in {"btl", "tl"}, f1, f2 \in {"head", "tail"} : Compare(w1, f1, w2, f2)
    \/ \E w \in {"btl", "tl"}, f \in {"head", "tail"}, v \in Values : CompareFresh(w, f, v)

SpecEq == Init /\ [][NextEq]_vars

\* ---- the doubly linked log and a clone of it ----
NextClone ==
    \/ \E v \in Values : BetterAppend(v)
    \/ BetterPop
    \/ BetterClone
    \/ \E v \in Values : CopyAppend(v)
    \/ CopyPop
    \/ CopyDrop

SpecClone == Init /\ [][NextClone]_vars

\* ---- both logs, with a cursor that holds a clone of a head or tail link ----
NextHeld ==
    \/ \E v \in Values : BetterAppend(v)
    \/ BetterPop
    \/ \E v \in Values : TlAppend(v)
    \/ TlPop
    \/ \E which \in {"btl", "tl"}, from \in {"head", "tail"} : CursorNew(which, from)
    \/ CursorDrop

SpecHeld == Init /\ [][NextHeld]_vars

\* ---- walking the links ----
\* the nodes met by following `next` from link n, at most k of them
RECURSIVE WalkNext(_, _, _)
WalkNext(h, n, k) == IF n = NULL \/ k = 0 THEN <<>> ELSE <<n>> \o WalkNext(h, h[n].next, k - 1)

\* the nodes met by following `prev` from link n, at most k of them
RECURSIVE WalkPrev(_, _, _)
WalkPrev(h, n, k) == IF n = NULL \/ k = 0 THEN <<>> ELSE <<n>> \o WalkPrev(h, h[n].prev, k - 1)

\* a walk longer than the heap has met a node twice
Fuel == MaxNodes + 1

Forward(l) == WalkNext(nodes, l.head, Fuel)

Backward(l) == WalkPrev(nodes, l.tail, Fuel)

NoRepeat(w) == \A i, j \in 1..Len(w) : w[i] = w[j] => i = j

Reverse(w) == [i \in 1..Len(w) |-> w[Len(w) + 1 - i]]

IsPrefix(a, b) == Len(a) <= Len(b) /\ SubSeq(b, 1, Len(a)) = a

\* ---- claims ----

\* C1: each pop of a log that holds values returns the oldest value appended
\* and not yet popped, for the doubly and the singly linked log alike; when
\* every appended value has been popped, length is 0 and head and tail are
\* both empty.
C1_FifoOrder ==
    [][/\ (op' = "BetterPop" /\ pending.btl # <<>>) => ret' = RetSome(Head(pending.btl))
       /\ (op' = "Pop" /\ pending.tl # <<>>) => ret' = RetSome(Head(pending.tl))
       /\ pending'.btl = <<>> => (btl'.length = 0 /\ IsEmptyLog(btl'))
       /\ pending'.tl = <<>> => (tl'.length = 0 /\ IsEmptyLog(tl'))]_vars

\* C1 witness: the last value was popped from the singly linked log, leaving it
\* empty, while the doubly linked log still holds one value
C1_Witness ==
    /\ op = "Pop" /\ ret = RetSome("b") /\ pending.tl = <<>> /\ tl.length = 0
    /\ pending.btl = <<"b">> /\ btl.length = 1

\* C2: with append and pop alone, whenever pop reaches Rc::try_unwrap the
\* detached head has exactly one owner, so pop returns a value and never panics.
C2_PoppedNodeHasOneOwner ==
    (op \in {"BetterPop", "Pop"} /\ ret.kind # "None") => (strong = 1 /\ ret.kind = "Some")

\* C2 witness: a pop of the doubly linked log of length >= 2 reached try_unwrap
\* with one owner (the successor's prev was released)
C2_Witness == op = "BetterPop" /\ ret.kind = "Some" /\ strong = 1 /\ btl.length >= 1

\* the relation between length, head and tail of one log
LengthAgrees(l) ==
    /\ l.length = 0 <=> IsEmptyLog(l)
    /\ l.length = 1 <=> (l.head # NULL /\ l.head = l.tail /\ nodes[l.head].next = NULL /\ nodes[l.head].prev = NULL)
    /\ l.head = NULL <=> l.tail = NULL
    /\ l.length = Len(Forward(l))

\* C3: length = 0 exactly when head and tail are both empty, length = 1
\* exactly when head and tail are the same single node, head is empty exactly
\* when tail is, and length is the number of linked nodes.
C3_LengthHeadTail == LengthAgrees(btl) /\ LengthAgrees(tl)

\* C3 witness: one log holds a single node, the other holds two
C3_Witness == btl.length = 1 /\ btl.head = btl.tail /\ btl.head # NULL /\ tl.length = 2

\* C4: in a doubly linked log longer than 1, the walk along next from head
\* visits length nodes, the last being tail, none twice, and ends on an empty
\* link; the walk along prev from tail does the same towards head.
C4_WalksReachEnds ==
    btl.length > 1 =>
        /\ Len(Forward(btl)) = btl.length
        /\ Forward(btl)[btl.length] = btl.tail
        /\ NoRepeat(Forward(btl))
        /\ nodes[btl.tail].next = NULL
        /\ Len(Backward(btl)) = btl.length
        /\ Backward(btl)[btl.length] = btl.head
        /\ NoRepeat(Backward(btl))
        /\ nodes[btl.head].prev = NULL

\* C4 witness: a doubly linked log of three nodes whose first node was popped
\* earlier (the slot of that node now holds the tail)
C4_Witness == btl.length = 3 /\ btl.head = 2 /\ btl.tail = 1

\* the nodes of the doubly linked chain, from either end
BtlChain == {Forward(btl)[i] : i \in 1..Len(Forward(btl))} \cup {Backward(btl)[i] : i \in 1..Len(Backward(btl))}

\* C5: for all nodes n, m of the doubly linked chain, n.next is m exactly when
\* m.prev is n.
C5_Reciprocity ==
    \A n, m \in BtlChain : nodes[n].next = m <=> nodes[m].prev = n

\* C5 witness: a chain of adjacent pairs that was both appended to and popped from
C5_Witness == btl.length = 2 /\ op = "BetterPop" /\ ret.kind = "Some" /\ Cardinality(BtlChain) = 2

\* C6: every append returns, increases length by exactly 1, leaves the newest
\* value in tail and the oldest value still in the log in head, and does not
\* change which node is head of a log that held a node.
C6_AppendMonotonic ==
    [][/\ op' = "BetterAppend" =>
            /\ ret' = RetUnit
            /\ btl'.length = btl.length + 1
            /\ btl'.tail # NULL /\ nodes'[btl'.tail].value = pending'.btl[Len(pending'.btl)]
            /\ btl'.head # NULL /\ nodes'[btl'.head].value = Head(pending'.btl)
            /\ btl.head # NULL => btl'.head = btl.head
       /\ op' = "Append" =>
            /\ ret' = RetUnit
            /\ tl'.length = tl.length + 1
            /\ tl'.tail # NULL /\ nodes'[tl'.tail].value = pending'.tl[Len(pending'.tl)]
            /\ tl'.head # NULL /\ nodes'[tl'.head].value = Head(pending'.tl)
            /\ tl.head # NULL => tl'.head = tl.head]_vars

\* C6 witness: the third append on a log, head holding v1 and tail holding v3
C6_Witness ==
    /\ op = "BetterAppend" /\ btl.length = 3 /\ pending.btl = <<"a", "b", "b">>
    /\ nodes[btl.head].value = "a" /\ nodes[btl.tail].value = "b"

\* C7: pop on an empty log returns None, does not panic, and changes neither
\* the log (length stays 0, head and tail stay empty) nor any node.
C7_PopOnEmpty ==
    [][/\ (op' = "BetterPop" /\ btl.length = 0) => (ret' = RetNone /\ btl' = NewEmpty /\ nodes' = nodes)
       /\ (op' = "Pop" /\ tl.length = 0) => (ret' = RetNone /\ tl' = NewEmpty /\ nodes' = nodes)]_vars

\* C7 witness: a pop returned None on a log that had been emptied by pops
C7_Witness == op = "BetterPop" /\ ret = RetNone /\ btl = NewEmpty /\ nodes[1].strong = 0 /\ tl.head = 2

\* the cursor runs over the doubly linked log, which has not changed since
Undisturbed == cursor.live /\ iter.log = "btl" /\ ~iter.dirty

\* what an undisturbed cursor must have yielded so far, given the whole sequence
YieldsInOrder(whole) ==
    /\ IsPrefix(iter.out, whole)
    /\ (op \in {"next", "next_back"} /\ ret = RetNone) => iter.out = whole
    /\ iter.out = whole => cursor.current = NULL

\* C8: over a doubly linked log holding x1..xn, a cursor started at head and
\* stepped with next alone yields x1..xn in order and then None; a cursor
\* started at tail and stepped with next_back alone yields xn..x1 and then None.
C8_TraversalAgreement ==
    /\ (Undisturbed /\ iter.from = "head" /\ ~iter.back) => YieldsInOrder(pending.btl)
    /\ (Undisturbed /\ iter.from = "tail" /\ ~iter.fwd) => YieldsInOrder(Reverse(pending.btl))

\* C8 witness: a forward cursor over a log that was popped has yielded all of
\* the log's values and then None
C8_Witness ==
    /\ Undisturbed /\ iter.from = "head" /\ ~iter.back
    /\ op = "next" /\ ret = RetNone
    /\ iter.out = <<"a", "b">> /\ pending.btl = <<"a", "b">> /\ btl.head = 2

\* C9 as stated: with a cursor alive, every pop of a non-empty log still finds
\* the detached node with one owner and returns a value.
C9_PopSafeWithCursor ==
    (op = "BetterPop" /\ ret.kind # "None") => (strong = 1 /\ ret.kind = "Some")

\* C10: creating a cursor and stepping it with next or next_back change neither
\* log nor the value, next or prev of any node.
C10_IterationFrame ==
    [][op' \in {"CursorNew", "next", "next_back"} =>
            /\ btl' = btl
            /\ tl' = tl
            /\ \A n \in NodeIds :
                /\ nodes'[n].value = nodes[n].value
                /\ nodes'[n].next = nodes[n].next
                /\ nodes'[n].prev = nodes[n].prev]_vars

\* C10 witness: a next step moved the cursor from one node of the log to the next
C10_Witness ==
    /\ op = "next" /\ ret.kind = "Some" /\ cursor.current # NULL
    /\ btl.length = 3 /\ iter.out = <<"a">>

\* C11: in every state reachable by append and pop the head node's prev and
\* the tail node's next are empty; in particular a pop of a log of length >= 2
\* leaves the new head without a back-reference to the removed node.
C11_EndsHaveNoOuterLink ==
    /\ btl.head # NULL => nodes[btl.head].prev = NULL
    /\ btl.tail # NULL => nodes[btl.tail].next = NULL

\* C11 witness: a pop of a log of three nodes left a new head that has a successor
C11_Witness ==
    /\ op = "BetterPop" /\ ret.kind = "Some" /\ btl.length = 2
    /\ nodes[btl.head].next = btl.tail /\ nodes[btl.tail].prev = btl.head

\* C12: when pop reaches the reclaim step with more than one owner of the
\* detached node, it panics: it returns neither a value nor None.
C12_SharedNodeHalts ==
    (op \in {"BetterPop", "Pop"} /\ strong > 1) => ret = RetPanic

\* C12 witness: a pop of the singly linked log found two owners and panicked
C12_Witness == op = "Pop" /\ strong = 2 /\ ret = RetPanic /\ cursor.live

\* the nodes of a log other than its head keep their value and next
KeepsRest(l) ==
    \A i \in 2..Len(Forward(l)) :
        LET n == Forward(l)[i]
        IN /\ nodes'[n].value = nodes[n].value
           /\ nodes'[n].next = nodes[n].next
           /\ i > 2 => nodes'[n].prev = nodes[n].prev

\* what one pop does to a log that holds a node
Relinks(l, m) ==
    /\ m.length = l.length - 1
    /\ l.length >= 2 => (m.head = nodes[l.head].next /\ m.head # NULL /\ m.tail = l.tail /\ KeepsRest(l))
    /\ l.length = 1 => IsEmptyLog(m)

\* C15: a pop of a log of length >= 2 makes the successor of the old head the
\* new head and leaves tail, every remaining value and next, and every prev but
\* the new head's as they were; a pop of a log of length 1 empties head and
\* tail; both take exactly one from length.
C15_PopRelinks ==
    [][/\ (op' = "BetterPop" /\ btl.length >= 1) => Relinks(btl, btl')
       /\ (op' = "Pop" /\ tl.length >= 1) => Relinks(tl, tl')]_vars

\* C15 witness: a pop of a doubly linked log of three nodes
C15_Witness == op = "BetterPop" /\ ret = RetSome("a") /\ btl.length = 2 /\ pending.btl = <<"b", "a">>

\* the nodes linked from the head of the singly linked log
TlChain == {Forward(tl)[i] : i \in 1..Len(Forward(tl))}

\* C13: the drop of a TransactionLog of length n whose nodes have no owner
\* outside the log makes n pops that return a value and then one that returns
\* None, leaves head and tail empty and length 0, releases every node of the
\* log, and no single pop releases more than one node.
C13_IterativeTeardown ==
    [][op' = "Drop" =>
            /\ ret' = RetUnit
            /\ teardown'.somes = tl.length
            /\ teardown'.pops = tl.length + 1
            /\ tl' = NewEmpty
            /\ \A n \in TlChain : IsFree(nodes', n)
            /\ teardown'.freed = tl.length
            /\ teardown'.deepest <= 1]_vars

\* C13 witness: a log of three nodes was dropped
C13_Witness == op = "Drop" /\ teardown = [pops |-> 4, somes |-> 3, freed |-> 3, deepest |-> 1]

\* C14 as stated: once the doubly linked log is destroyed (dropped, or consumed
\* by into_iter and the cursor dropped), every node it held has been released.
C14_DestroyedLogReleased ==
    (IsEmptyLog(btl) /\ ~cursor.live) => \A n \in NodeIds : IsFree(nodes, n) \/ n \in TlChain

\* C16: once the current link of a cursor is empty it stays empty, and every
\* later next or next_back returns None, whatever is appended to or popped
\* from the log in between.
C16_ExhaustedStaysExhausted ==
    [][(cursor.live /\ cursor.current = NULL /\ cursor'.live) =>
            /\ cursor'.current = NULL
            /\ op' \in {"next", "next_back"} => ret' = RetNone]_vars

\* C16 witness: a cursor made from the empty link of an empty log returned None
\* after two values were appended to that log
C16_Witness ==
    /\ cursor.live /\ cursor.current = NULL /\ iter.out = <<>> /\ iter.dirty
    /\ op = "next" /\ ret = RetNone /\ btl.length = 2

\* C17 as stated: a cursor over an unmodified doubly linked log of n nodes
\* yields at most n values under any mix of next and next_back.
C17_FiniteDoubleEnded ==
    Undisturbed => Len(iter.out) <= Len(pending.btl)

\* C18 as stated: == on two links of reachable logs returns true or false,
\* also for nodes of a doubly linked chain of length >= 2.
C18_EqualityTerminates ==
    op \in {"eq", "eq_fresh"} => ret.kind = "Bool"

\* the slots that refer to node n: links of nodes, of the logs, of the clone
\* and of the cursor
Refs(n) ==
    Cardinality({m \in NodeIds : nodes[m].next = n})
    + Cardinality({m \in NodeIds : nodes[m].prev = n})
    + (IF btl.head = n THEN 1 ELSE 0) + (IF btl.tail = n THEN 1 ELSE 0)
    + (IF tl.head = n THEN 1 ELSE 0) + (IF tl.tail = n THEN 1 ELSE 0)
    + (IF copy.head = n THEN 1 ELSE 0) + (IF copy.tail = n THEN 1 ELSE 0)
    + (IF cursor.current = n THEN 1 ELSE 0)

\* C19: between operations, with append and pop alone, every node of the
\* doubly linked chain has as many owners as there are slots referring to it,
\* and that is exactly 2; a node in no chain has no owner.
C19_OwnerCount ==
    /\ \A n \in BtlChain : nodes[n].strong = Refs(n) /\ nodes[n].strong = 2
    /\ \A n \in NodeIds \ (BtlChain \cup TlChain) : nodes[n].strong = 0

\* C19 witness: a chain of three nodes with a middle node, built by appends
\* after a pop
C19_Witness ==
    /\ op = "BetterAppend" /\ btl.length = 3 /\ btl.head = 3
    /\ \A n \in NodeIds : nodes[n].strong = 2

\* the values of a doubly linked log from head to tail, in a given heap
ValuesOf(h, l) == [i \in 1..Len(WalkNext(h, l.head, Fuel)) |-> h[WalkNext(h, l.head, Fuel)[i]].value]

\* a step leaves log l as it was: same fields, same values from head to tail,
\* as many linked nodes as its length, nothing after its tail
Untouched(l, m) ==
    /\ m = l
    /\ ValuesOf(nodes', m) = ValuesOf(nodes, l)
    /\ Len(ValuesOf(nodes', m)) = m.length
    /\ m.tail # NULL => nodes'[m.tail].next = NULL

\* C20 as stated: after log2 = log1.clone(), an append or pop on either log
\* does not panic and leaves the other log as it was.
C20_CloneIndependent ==
    [][/\ (copy.live /\ op' \in {"BetterAppend", "BetterPop"}) =>
            (ret'.kind # "Panic" /\ Untouched(LogPart(copy), LogPart(copy')))
       /\ op' \in {"CopyAppend", "CopyPop"} =>
            (ret'.kind # "Panic" /\ Untouched(btl, btl'))]_vars

====
